---- MODULE Spec2Model ----
(***************************************************************************)
(* Model of the pytest-zebrunner reporting core:                           *)
(*   - ZebrunnerAPI        (zebrunner_api/client.py): the HTTP client       *)
(*   - ReportingService    (reporting_service.py): the lifecycle hooks      *)
(*   - zebrunner_context   (context.py): the current TestRun / Test and the  *)
(*     two "is active" predicates, as the specification defines them.       *)
(* Every hook is one atomic action: the test framework dispatches the       *)
(* hooks one after the other, each running to completion.                   *)
(***************************************************************************)
EXTENDS Integers, Sequences, FiniteSets, TLC

\* ---------------------------------------------------------------- bounds
\* The server assigns run ids 1..MaxRunId and test ids MaxRunId+1..MaxRunId+MaxTestId.
MaxRunId == 1
MaxTestId == 2
\* Finish requests (of one item, of the run) are counted up to this number.
MaxFin == 2
\* The collected items and the tests of a rerun descriptor are lists of at most
\* this length.
MaxItems == 2

\* ---------------------------------------------------------------- values
\* Optional[int] == None
NoId == 0
RunIds == 1..MaxRunId
TestIds == (MaxRunId + 1)..(MaxRunId + MaxTestId)
\* Optional[str] == None
NoStr == "None"

\* TestStatus values used by the orchestrator
PASSED == "PASSED"
FAILED == "FAILED"
SKIPPED == "SKIPPED"

\* What the transport does with one request: httpx raises RequestError, or a
\* Response arrives.  A Response has a status code, a body that response.json()
\* can parse or cannot, and (for the start operations) the "id" of the body.
RequestError == [kind |-> "RequestError", status |-> 0, json |-> FALSE, id |-> NoId]
Response(s, j, i) == [kind |-> "Response", status |-> s, json |-> j, id |-> i]
\* The request was refused because the Client is closed (httpx: RuntimeError).
ClientClosed == [kind |-> "ClientClosed", status |-> 0, json |-> FALSE, id |-> NoId]

\* Outcomes of a request whose 2xx body carries an identifier out of ids.
IdOutcomes(ids) ==
    {RequestError, Response(404, TRUE, NoId), Response(502, FALSE, NoId)}
        \cup {Response(200, TRUE, i) : i \in ids}
        \cup {Response(201, TRUE, CHOOSE i \in ids : TRUE)}
\* Outcomes of a request whose result is void (or a token).
VoidOutcomes ==
    {RequestError, Response(200, TRUE, NoId), Response(404, TRUE, NoId),
     Response(502, FALSE, NoId)}

\* The credentials the authentication endpoint hands out ("authToken" of the body).
Tokens == {11, 12}
NoToken == 0
\* Outcomes of the refresh-token exchange.
AuthOutcomes ==
    {RequestError, Response(404, TRUE, NoToken), Response(502, FALSE, NoToken)}
        \cup {Response(200, TRUE, t) : t \in Tokens}

Is2xx(o) == o.kind = "Response" /\ o.status >= 200 /\ o.status <= 299

\* Exceptions
NoExc == "none"

\* ----------------------------------------------------------- test inputs
Names == {"test_a"}
LongRepr == "longreprtext"
\* item.own_markers filtered by name == "skip": absent, or kwargs.get("reason")
NoMarker == [present |-> FALSE, reason |-> NoStr, strict |-> FALSE]
Marker(r, s) == [present |-> TRUE, reason |-> r, strict |-> s]
SkipMarkers == {NoMarker, Marker(NoStr, FALSE), Marker("env", FALSE)}
XfailMarkers == {NoMarker} \cup {Marker(r, s) : r \in {NoStr, "flaky"}, s \in BOOLEAN}

\* -------------------------------------------------------------- settings
\* settings.notifications: no block, or a block with its three channel values
\* ("" for a channel that is not set).
NoNotifications ==
    [present |-> FALSE, emails |-> "", slack_channels |-> "", ms_teams_channels |-> ""]
Notifications(e, sl, ms) ==
    [present |-> TRUE, emails |-> e, slack_channels |-> sl, ms_teams_channels |-> ms]
NotificationSettings ==
    {NoNotifications}
        \cup {Notifications(e, sl, ms) :
                 e \in {"", "qa@x.io"}, sl \in {"", "#qa"}, ms \in {"", "qa-team"}}
\* settings.run.context: the rerun token, or None
RunContexts == {NoStr, "rerun-token"}
DefaultSettings == [notifications |-> NoNotifications, context |-> NoStr]
Settings == [notifications : NotificationSettings, context : RunContexts]

\* NotificationsType values
EMAIL_RECIPIENTS == "EMAIL_RECIPIENTS"
SLACK_CHANNELS == "SLACK_CHANNELS"
MS_TEAMS_CHANNELS == "MS_TEAMS_CHANNELS"
NotificationTargetModel(type, value) == [type |-> type, value |-> value]
\* Optional[List[NotificationTargetModel]]: None, or a list
NoTargets == [present |-> FALSE, list |-> <<>>]
Targets(l) == [present |-> TRUE, list |-> l]

\* ------------------------------------------------------ collected items
\* item.name of the collected items
ItemNames == {"test_a", "test_b"}
RECURSIVE SeqsUpTo(_, _)
SeqsUpTo(S, n) ==
    IF n = 0 THEN {<<>>}
    ELSE SeqsUpTo(S, n - 1) \cup {Append(q, x) : q \in SeqsUpTo(S, n - 1), x \in S}
ItemLists == SeqsUpTo(ItemNames, MaxItems)
\* TestModel of a rerun descriptor: correlation_data is None or carries a name
TestModel(cd) == [correlation_data |-> cd]
RerunTests == SeqsUpTo({TestModel(cd) : cd \in {NoStr} \cup ItemNames}, MaxItems)

\* ------------------------------------------------------------- the state
VARIABLES
    test_run,       \* zebrunner_context.test_run
    test,           \* zebrunner_context.test
    authenticated,  \* ZebrunnerAPI.authenticated
    auth_token,     \* ZebrunnerAPI._auth_token
    closed,         \* ZebrunnerAPI._client has been closed
    handler,        \* a ZebrunnerHandler is registered in logging.root
    send_logs_cfg,  \* settings.send_logs
    settings,       \* settings.notifications and settings.run.context
    phase,          \* "init": before the session starts; "hook": a hook has just
                    \* run; "idle": the framework is between two events
    last_op,        \* the hook that has just run
    trace,          \* the client operations that hook invoked, in order
    raised,         \* the exception that hook raised to the framework
    run_outcome,    \* history: <<outcome>> of the start-run request, once made
    finish_runs,    \* history: number of finish-run operations invoked, up to MaxFin
    item,           \* history: the item of the latest start_test
    fin_in,         \* the inputs of that hook, when it is finish_test
    targets,        \* history: <<notification_targets>> of the start-run payload,
                    \* once built
    filtered        \* the items given to that hook and the list it returned, when
                    \* it is filter_test_items

vars == <<test_run, test, authenticated, auth_token, closed, handler, send_logs_cfg, phase, last_op,
          trace, raised, run_outcome, finish_runs, item, fin_in, settings, targets,
          filtered>>

\* zebrunner_context.test_run / .test when absent
NoRun == [present |-> FALSE, zebrunner_id |-> NoId]
NoTest == [present |-> FALSE, name |-> NoStr, zebrunner_id |-> NoId]
\* TestRun(...) and Test(...) as constructed: no server id yet
TestRun == [present |-> TRUE, zebrunner_id |-> NoId]
Test(n) == [present |-> TRUE, name |-> n, zebrunner_id |-> NoId]

\* ---------------------------------------------------- execution context
\* The mutable part of the program that one hook works on.
Ctx == [test_run |-> test_run, test |-> test, authenticated |-> authenticated,
        auth_token |-> auth_token,
        closed |-> closed, handler |-> handler, trace |-> <<>>,
        raised |-> NoExc, ret |-> NoId]

test_run_is_active(s) == s.test_run.present /\ s.test_run.zebrunner_id # NoId
test_is_active(s) ==
    test_run_is_active(s) /\ s.test.present /\ s.test.zebrunner_id # NoId
test_run_id(s) == s.test_run.zebrunner_id
test_id(s) == s.test.zebrunner_id

\* ------------------------------------------------------ ZebrunnerAPI
\* One client operation as the hook sees it: the operation, its arguments, what
\* the transport did, what the operation returned and what it raised.
Call(op, rid, tid, st, rs, o, ret, exc) ==
    [op |-> op, run_id |-> rid, test_id |-> tid, status |-> st, reason |-> rs,
     outcome |-> o, ret |-> ret, exc |-> exc]

\* The operation has run: it is recorded, its return value and exception are set.
Done(s, c) == [s EXCEPT !.trace = Append(@, c), !.ret = c.ret, !.raised = c.exc]

\* self._client.post / put: a closed Client refuses the request.
Sent(s, o) == IF s.closed THEN ClientClosed ELSE o

\* log_response: pformat(response.json()) raises when the body is not JSON.
log_response(o) == IF o.json THEN NoExc ELSE "JSONDecodeError"

\* try/except httpx.RequestError around the request, then the status check:
\* the exception that leaves the operation.
Guarded(e) ==
    IF e.kind = "ClientClosed" THEN "RuntimeError"
    ELSE IF e.kind = "RequestError" THEN NoExc
    ELSE IF e.status # 200 THEN log_response(e)
    ELSE NoExc

\* response.json()["id"] when the status is 200, None otherwise.
IdOf(e) == IF e.kind = "Response" /\ e.status = 200 THEN e.id ELSE NoId

auth(s, o) ==
    LET e == Sent(s, o)
        s1 == Done(s, Call("auth", NoId, NoId, NoStr, NoStr, e, NoId, Guarded(e)))
    IN  IF e.kind = "Response" /\ e.status = 200
        THEN [s1 EXCEPT !.auth_token = e.id, !.authenticated = TRUE]
        ELSE s1

api_start_test_run(s, o) ==
    LET e == Sent(s, o)
    IN  Done(s, Call("start_test_run", NoId, NoId, NoStr, NoStr, e, IdOf(e), Guarded(e)))

api_start_test(s, rid, o) ==
    LET e == Sent(s, o)
    IN  Done(s, Call("start_test", rid, NoId, NoStr, NoStr, e, IdOf(e), Guarded(e)))

api_finish_test(s, rid, tid, st, rs, o) ==
    LET e == Sent(s, o)
    IN  Done(s, Call("finish_test", rid, tid, st, rs, e, NoId, Guarded(e)))

api_finish_test_run(s, rid, o) ==
    LET e == Sent(s, o)
    IN  Done(s, Call("finish_test_run", rid, NoId, NoStr, NoStr, e, NoId, Guarded(e)))

\* No try/except and no status check: whatever the request raises leaves the
\* operation.
Unguarded(e) ==
    IF e.kind = "ClientClosed" THEN "RuntimeError"
    ELSE IF e.kind = "RequestError" THEN "RequestError"
    ELSE NoExc

api_send_logs(s, rid, o) ==
    LET e == Sent(s, o)
    IN  Done(s, Call("send_logs", rid, NoId, NoStr, NoStr, e, NoId, Unguarded(e)))

api_send_screenshot(s, rid, tid, o) ==
    LET e == Sent(s, o)
    IN  Done(s, Call("send_screenshot", rid, tid, NoStr, NoStr, e, NoId, Unguarded(e)))

\* A client operation that sends no request.
NoRequest == [kind |-> "NoRequest", status |-> 0, json |-> FALSE, id |-> NoId]

\* self._client.close(): closing a closed Client is allowed.
api_close(s) ==
    [Done(s, Call("close", NoId, NoId, NoStr, NoStr, NoRequest, NoId, NoExc))
        EXCEPT !.closed = TRUE]

\* Python binds the positional arguments of a call to the parameters of the
\* method (self apart): a different number is a TypeError and the body never runs.
Bind(params, args) == IF args = params THEN NoExc ELSE "TypeError"

\* def start_test_session(self, body): return None -- called with args arguments
api_start_test_session(s, args) ==
    Done(s, Call("start_test_session", NoId, NoId, NoStr, NoStr, NoRequest, NoId,
                 Bind(1, args)))

\* def finish_test_session(self, zebrunner_id, body): return
api_finish_test_session(s, args) ==
    Done(s, Call("finish_test_session", NoId, NoId, NoStr, NoStr, NoRequest, NoId,
                 Bind(2, args)))

\* get_rerun_tests(run_context): one request, answered with the rerun descriptor.
api_get_rerun_tests(s) ==
    LET e == Sent(s, Response(200, TRUE, NoId))
    IN  Done(s, Call("get_rerun_tests", NoId, NoId, NoStr, NoStr, e, NoId, Guarded(e)))

\* ZebrunnerHandler.push_logs: hands the buffered records to send_logs.
push_logs(s, o) == api_send_logs(s, test_run_id(s), o)

\* -------------------------------------------------- ReportingService
Ok(s) == s.raised = NoExc

\* authorize that exchanges the refresh token whether or not a credential is held.
authorize_always(s, o) == auth(s, o)

authorize(s, o) == IF ~s.authenticated THEN auth(s, o) ELSE s

\* get_notification_configurations that returns a list whatever the settings.
get_notification_configurations_list(st) ==
    LET n == st.notifications
        emails == IF n.emails # ""
                  THEN <<NotificationTargetModel(EMAIL_RECIPIENTS, n.emails)>> ELSE <<>>
        slack == IF n.slack_channels # ""
                 THEN <<NotificationTargetModel(SLACK_CHANNELS, n.slack_channels)>> ELSE <<>>
        teams == IF n.ms_teams_channels # ""
                 THEN <<NotificationTargetModel(MS_TEAMS_CHANNELS, n.ms_teams_channels)>>
                 ELSE <<>>
    IN  Targets(emails \o slack \o teams)

get_notification_configurations(st) ==
    LET n == st.notifications
        emails == IF n.emails # ""
                  THEN <<NotificationTargetModel(EMAIL_RECIPIENTS, n.emails)>> ELSE <<>>
        slack == IF n.slack_channels # ""
                 THEN <<NotificationTargetModel(SLACK_CHANNELS, n.slack_channels)>> ELSE <<>>
        teams == IF n.ms_teams_channels # ""
                 THEN <<NotificationTargetModel(MS_TEAMS_CHANNELS, n.ms_teams_channels)>>
                 ELSE <<>>
    IN  IF n.present THEN Targets(emails \o slack \o teams) ELSE NoTargets

start_test_run(s, oa, orun) ==
    LET s1 == authorize(s, oa)
        s2 == [s1 EXCEPT !.test_run = TestRun]
        s3 == api_start_test_run(s2, orun)
        s4 == [s3 EXCEPT !.test_run.zebrunner_id = s3.ret]
    IN  IF ~Ok(s1) THEN s1
        ELSE IF ~Ok(s3) THEN s3
        ELSE IF send_logs_cfg THEN [s4 EXCEPT !.handler = TRUE]
        ELSE s4

\* start_test that starts the test whether or not the Run is active.
start_test_any_run(s, n, skipped, skip, oa, ot, of) ==
    LET s1 == authorize(s, oa)
        s2 == [s1 EXCEPT !.test = Test(n)]
        r3 == api_start_test(s2, test_run_id(s2), ot)
        s3 == IF Ok(r3) THEN [r3 EXCEPT !.test.zebrunner_id = r3.ret] ELSE r3
        skip_reason == IF skip.present THEN skip.reason ELSE NoStr
        r4 == api_finish_test(s3, test_run_id(s3), test_id(s3), SKIPPED, skip_reason, of)
    IN  IF ~Ok(s1) THEN s1
        ELSE IF ~Ok(s3) THEN s3
        ELSE IF skipped /\ test_is_active(s3)
        THEN (IF Ok(r4) THEN [r4 EXCEPT !.test = NoTest] ELSE r4)
        ELSE s3

\* start_test that sends the start-test request again when it returned no id.
start_test_retry(s, n, skipped, skip, oa, ot, of) ==
    LET s1 == authorize(s, oa)
        s2 == [s1 EXCEPT !.test = Test(n)]
        r3a == api_start_test(s2, test_run_id(s2), ot)
        r3 == IF Ok(r3a) /\ r3a.ret = NoId
              THEN api_start_test(r3a, test_run_id(s2), ot) ELSE r3a
        s3 == IF test_run_is_active(s2)
              THEN (IF Ok(r3) THEN [r3 EXCEPT !.test.zebrunner_id = r3.ret] ELSE r3)
              ELSE s2
        skip_reason == IF skip.present THEN skip.reason ELSE NoStr
        r4 == api_finish_test(s3, test_run_id(s3), test_id(s3), SKIPPED, skip_reason, of)
    IN  IF ~Ok(s1) THEN s1
        ELSE IF ~Ok(s3) THEN s3
        ELSE IF skipped /\ test_is_active(s3)
        THEN (IF Ok(r4) THEN [r4 EXCEPT !.test = NoTest] ELSE r4)
        ELSE s3

start_test(s, n, skipped, skip, oa, ot, of) ==
    LET s1 == authorize(s, oa)
        s2 == [s1 EXCEPT !.test = Test(n)]
        r3 == api_start_test(s2, test_run_id(s2), ot)
        s3 == IF test_run_is_active(s2)
              THEN (IF Ok(r3) THEN [r3 EXCEPT !.test.zebrunner_id = r3.ret] ELSE r3)
              ELSE s2
        skip_reason == IF skip.present THEN skip.reason ELSE NoStr
        r4 == api_finish_test(s3, test_run_id(s3), test_id(s3), SKIPPED, skip_reason, of)
    IN  IF ~Ok(s1) THEN s1
        ELSE IF ~Ok(s3) THEN s3
        ELSE IF skipped /\ test_is_active(s3)
        THEN (IF Ok(r4) THEN [r4 EXCEPT !.test = NoTest] ELSE r4)
        ELSE s3

\* resolve_status with the strict flag never read.
resolve_status_nostrict(passed, xfail) ==
    LET fail_reason0 == IF xfail.present THEN xfail.reason ELSE NoStr
    IN  IF passed
        THEN (IF xfail.present
              THEN [status |-> SKIPPED, reason |-> fail_reason0]
              ELSE [status |-> PASSED, reason |-> fail_reason0])
        ELSE (IF xfail.present
              THEN [status |-> SKIPPED, reason |-> xfail.reason]
              ELSE [status |-> FAILED, reason |-> LongRepr])

\* Lines 122-142: the status and the reason of the finish payload.
resolve_status(passed, xfail) ==
    LET fail_reason0 == IF xfail.present THEN xfail.reason ELSE NoStr
        is_strict == IF xfail.present THEN xfail.strict ELSE FALSE
    IN  IF passed
        THEN (IF xfail.present
              THEN (IF is_strict
                    THEN [status |-> FAILED, reason |-> LongRepr]
                    ELSE [status |-> SKIPPED, reason |-> fail_reason0])
              ELSE [status |-> PASSED, reason |-> fail_reason0])
        ELSE (IF xfail.present
              THEN [status |-> SKIPPED, reason |-> xfail.reason]
              ELSE [status |-> FAILED, reason |-> LongRepr])

\* finish_test that clears the current Test only when the request got a response.
finish_test_keeps(s, passed, xfail, oa, of) ==
    LET s1 == authorize(s, oa)
        res == resolve_status(passed, xfail)
        r2 == api_finish_test(s1, test_run_id(s1), test_id(s1), res.status, res.reason, of)
    IN  IF test_is_active(s)
        THEN (IF ~Ok(s1) THEN s1
              ELSE IF Ok(r2) /\ of.kind = "Response" THEN [r2 EXCEPT !.test = NoTest]
              ELSE r2)
        ELSE s

\* finish_test that authorizes before it looks at the Test, as the other hooks do.
finish_test_auth_first(s, passed, xfail, oa, of) ==
    LET s1 == authorize(s, oa)
        res == resolve_status(passed, xfail)
        r2 == api_finish_test(s1, test_run_id(s1), test_id(s1), res.status, res.reason, of)
    IN  IF ~Ok(s1) THEN s1
        ELSE IF test_is_active(s1)
        THEN (IF Ok(r2) THEN [r2 EXCEPT !.test = NoTest] ELSE r2)
        ELSE s1

finish_test(s, passed, xfail, oa, of) ==
    LET s1 == authorize(s, oa)
        res == resolve_status(passed, xfail)
        r2 == api_finish_test(s1, test_run_id(s1), test_id(s1), res.status, res.reason, of)
    IN  IF test_is_active(s)
        THEN (IF ~Ok(s1) THEN s1
              ELSE IF Ok(r2) THEN [r2 EXCEPT !.test = NoTest]
              ELSE r2)
        ELSE s

\* finish_test_run that flushes the log sink before it finishes the run.
finish_test_run_flush_first(s, oa, ofr, ol) ==
    LET s1 == authorize(s, oa)
        r2 == IF s1.handler THEN push_logs(s1, ol) ELSE s1
        r3 == IF Ok(r2) THEN api_finish_test_run(r2, test_run_id(r2), ofr) ELSE r2
        s3 == IF test_run_is_active(s1) THEN r3 ELSE s1
    IN  IF ~Ok(s1) THEN s1
        ELSE IF ~Ok(s3) THEN s3
        ELSE api_close(s3)

finish_test_run(s, oa, ofr, ol) ==
    LET s1 == authorize(s, oa)
        r2 == api_finish_test_run(s1, test_run_id(s1), ofr)
        r3 == IF Ok(r2) /\ r2.handler THEN push_logs(r2, ol) ELSE r2
        s3 == IF test_run_is_active(s1) THEN r3 ELSE s1
    IN  IF ~Ok(s1) THEN s1
        ELSE IF ~Ok(s3) THEN s3
        ELSE api_close(s3)

\* start_test_session(session_id, capabilities, desired_capabilities): the
\* client's operation is called with (test_run_id, StartTestSessionModel).
start_test_session(s, oa) ==
    LET s1 == authorize(s, oa)
    IN  IF ~Ok(s1) THEN s1
        ELSE IF test_run_is_active(s1) THEN api_start_test_session(s1, 2)
        ELSE [s1 EXCEPT !.ret = NoId]

\* finish_test_session(zebrunner_session_id, related_tests): the client's
\* operation is called with (test_run_id, zebrunner_session_id,
\* FinishTestSessionModel).
finish_test_session(s, oa) ==
    LET s1 == authorize(s, oa)
    IN  IF ~Ok(s1) THEN s1
        ELSE IF test_run_is_active(s1) THEN api_finish_test_session(s1, 3)
        ELSE s1

\* rerun_names that looks at the first test of the descriptor only.
rerun_names_first(tests) ==
    IF tests = <<>> THEN {} ELSE {tests[1].correlation_data} \ {NoStr}

\* {x.correlation_data.name for x in tests if x.correlation_data is not None}
rerun_names(tests) ==
    {tests[i].correlation_data : i \in {j \in 1..Len(tests) : tests[j].correlation_data # NoStr}}

\* filter_test_items(items): the context the hook leaves and the list it returns
\* (none when it raises); tests is the list of the descriptor fetched.
filter_test_items(s, st, items, oa, tests) ==
    LET s1 == authorize(s, oa)
        s2 == api_get_rerun_tests(s1)
        names == rerun_names(tests)
    IN  IF st.context # NoStr
        THEN (IF ~Ok(s1) THEN [ctx |-> s1, ret |-> <<>>]
              ELSE IF ~Ok(s2) THEN [ctx |-> s2, ret |-> <<>>]
              ELSE [ctx |-> s2, ret |-> SelectSeq(items, LAMBDA x : x \in names)])
        ELSE [ctx |-> s, ret |-> items]

\* ------------------------------------------------------------- actions
\* The calls of one client operation among the calls of a hook.
Calls(tr, op) == SelectSeq(tr, LAMBDA c : c.op = op)
\* The (status, reason) payload of a call.
Payload(c) == [status |-> c.status, reason |-> c.reason]
NoPayload == [status |-> NoStr, reason |-> NoStr]
\* A count that stops at MaxFin.
Count(n, tr) == IF n + Len(tr) <= MaxFin THEN n + Len(tr) ELSE MaxFin

\* The item of the latest start_test: was it reported skipped and with which
\* marker reason, did the start-test request return an id, how many finish-test
\* requests were made for it so far and what did the first of them carry, did
\* they all carry the id of the Run and the id start-test returned, and is its
\* finish_test event still to come.
NoItem == [present |-> FALSE, skipped |-> FALSE, reason |-> NoStr, started |-> FALSE,
           nfin |-> 0, first |-> NoPayload, ids_ok |-> TRUE, pending |-> FALSE]
\* The finish-test calls fin carry the run id rid and the test id tid.
Carry(fin, rid, tid) ==
    \A i \in 1..Len(fin) :
        /\ fin[i].run_id = rid /\ rid # NoId
        /\ fin[i].test_id = tid /\ tid # NoId
\* The payload is kept for the items reported skipped at start.
First(it, fin) ==
    IF it.skipped /\ it.nfin = 0 /\ fin # <<>> THEN Payload(fin[1]) ELSE it.first
NoFinIn == [passed |-> FALSE, xfail |-> NoMarker, active |-> FALSE, paired |-> FALSE]
NoFiltered == [items |-> <<>>, tests |-> <<>>, ret |-> <<>>]

\* The outcomes a request can have when the hook is entered in state s: only a
\* request that is made has an outcome.
Drawn(made, outcomes) == IF made THEN outcomes ELSE {RequestError}
\* authorize returns: a credential is held, or the exchange raises nothing.
Authorizes(oa) == authenticated \/ (~closed /\ Guarded(oa) = NoExc)
\* The values of an input the hook reads only on some of its paths.
Inputs(read, values) == IF read THEN values ELSE {CHOOSE v \in values : TRUE}

\* The hook has run from Ctx to the context it returns: the program state is
\* that context.
Commit(result, op) ==
    \E s \in {result} :
    /\ test_run' = s.test_run
    /\ test' = s.test
    /\ authenticated' = s.authenticated
    /\ auth_token' = s.auth_token
    /\ closed' = s.closed
    /\ handler' = s.handler
    /\ trace' = s.trace
    /\ raised' = s.raised
    /\ last_op' = op
    /\ phase' = "hook"
    /\ finish_runs' = Count(finish_runs, Calls(s.trace, "finish_test_run"))
    /\ UNCHANGED <<send_logs_cfg, settings>>

\* The process after ReportingService() has been constructed.
Constructed ==
    /\ test_run = NoRun
    /\ test = NoTest
    /\ authenticated = FALSE
    /\ auth_token = NoToken
    /\ closed = FALSE
    /\ handler = FALSE
    /\ phase = "init"
    /\ last_op = "none"
    /\ trace = <<>>
    /\ raised = NoExc
    /\ run_outcome = <<>>
    /\ finish_runs = 0
    /\ item = NoItem
    /\ fin_in = NoFinIn
    /\ targets = <<>>
    /\ filtered = NoFiltered

\* A session without notification settings and without a rerun token.
Init ==
    /\ Constructed
    /\ send_logs_cfg \in BOOLEAN
    /\ settings = DefaultSettings

\* A session with any notification settings, with or without a rerun token.
InitCollect ==
    /\ Constructed
    /\ send_logs_cfg = FALSE
    /\ settings \in Settings

\* pytest_sessionstart: once per process, before any test is reported.
StartRun ==
    /\ phase = "init"
    /\ \E oa \in AuthOutcomes :
       \E orun \in Drawn(Authorizes(oa), IdOutcomes(RunIds)) :
        \E s \in {start_test_run(Ctx, oa, orun)} :
        LET c == Calls(s.trace, "start_test_run")
        IN  /\ Commit(s, "start_test_run")
            /\ run_outcome' = IF c = <<>> THEN <<>> ELSE <<[c[1].outcome EXCEPT !.id = NoId]>>
            /\ targets' = IF Ok(authorize(Ctx, oa))
                          THEN <<get_notification_configurations(settings)>>
                          ELSE <<>>
    /\ UNCHANGED item
    /\ fin_in' = NoFinIn
    /\ filtered' = NoFiltered

\* The setup report of an item.
StartTest ==
    /\ phase = "idle"
    /\ \E n \in Names, skipped \in BOOLEAN :
       \E skip \in Inputs(skipped, SkipMarkers) :
       \E oa \in Drawn(~authenticated /\ ~closed, AuthOutcomes) :
       \E ot \in Drawn(Authorizes(oa) /\ test_run_is_active(Ctx) /\ ~closed,
                       IdOutcomes(TestIds)) :
       \E of \in Drawn(/\ Authorizes(oa) /\ test_run_is_active(Ctx) /\ ~closed
                       /\ skipped /\ IdOf(ot) # NoId,
                       VoidOutcomes) :
        \E s \in {start_test(Ctx, n, skipped, skip, oa, ot, of)} :
        LET st == Calls(s.trace, "start_test")
            fin == Calls(s.trace, "finish_test")
        IN  /\ Commit(s, "start_test")
            /\ LET
                it == [present |-> TRUE, skipped |-> skipped,
                       reason |-> IF skip.present THEN skip.reason ELSE NoStr,
                       started |-> (st # <<>> /\ st[1].ret # NoId),
                       nfin |-> 0, first |-> NoPayload,
                       ids_ok |-> Carry(fin, test_run_id(Ctx),
                                        IF st = <<>> THEN NoId ELSE st[1].ret),
                       pending |-> TRUE]
               IN item' = [it EXCEPT !.nfin = Count(0, fin), !.first = First(it, fin)]
    /\ UNCHANGED <<run_outcome, targets>>
    /\ fin_in' = NoFinIn
    /\ filtered' = NoFiltered

\* The call report of an item.
FinishTest ==
    /\ phase = "idle"
    /\ \E passed \in Inputs(test_is_active(Ctx), BOOLEAN),
          xfail \in Inputs(test_is_active(Ctx), XfailMarkers),
          oa \in Drawn(test_is_active(Ctx) /\ ~authenticated /\ ~closed, AuthOutcomes) :
       \E of \in Drawn(Authorizes(oa) /\ test_is_active(Ctx) /\ ~closed, VoidOutcomes) :
        \E s \in {finish_test(Ctx, passed, xfail, oa, of)} :
        LET fin == Calls(s.trace, "finish_test")
        IN  /\ Commit(s, "finish_test")
            /\ item' = [item EXCEPT !.nfin = Count(@, fin), !.first = First(item, fin),
                                    !.ids_ok = @ /\ Carry(fin, test_run_id(Ctx), test_id(Ctx)),
                                    !.pending = FALSE]
            /\ fin_in' = [passed |-> passed, xfail |-> xfail, active |-> test_is_active(Ctx),
                          paired |-> item.pending]
    /\ UNCHANGED <<run_outcome, targets>>
    /\ filtered' = NoFiltered

\* pytest_sessionfinish.
FinishRun ==
    /\ phase = "idle"
    /\ \E oa \in Drawn(~authenticated /\ ~closed, AuthOutcomes) :
       \E ofr \in Drawn(Authorizes(oa) /\ test_run_is_active(Ctx) /\ ~closed, VoidOutcomes) :
       \E ol \in Drawn(/\ Authorizes(oa) /\ test_run_is_active(Ctx) /\ ~closed
                       /\ handler /\ Guarded(ofr) = NoExc,
                       VoidOutcomes) :
        Commit(finish_test_run(Ctx, oa, ofr, ol), "finish_test_run")
    /\ UNCHANGED <<run_outcome, item, targets>>
    /\ fin_in' = NoFinIn
    /\ filtered' = NoFiltered

\* A caller of the client attaches a screenshot to the running test.
SendScreenshot ==
    /\ phase = "idle"
    /\ test_is_active(Ctx)
    /\ \E o \in Drawn(~closed, VoidOutcomes) :
        Commit(api_send_screenshot(Ctx, test_run_id(Ctx), test_id(Ctx), o), "send_screenshot")
    /\ UNCHANGED <<run_outcome, item, targets>>
    /\ fin_in' = NoFinIn
    /\ filtered' = NoFiltered

\* A caller starts a browser session.
StartSession ==
    /\ phase = "idle"
    /\ \E oa \in Drawn(~authenticated /\ ~closed, AuthOutcomes) :
        Commit(start_test_session(Ctx, oa), "start_test_session")
    /\ UNCHANGED <<run_outcome, item, targets>>
    /\ fin_in' = NoFinIn
    /\ filtered' = NoFiltered

\* A caller finishes a browser session.
FinishSession ==
    /\ phase = "idle"
    /\ \E oa \in Drawn(~authenticated /\ ~closed, AuthOutcomes) :
        Commit(finish_test_session(Ctx, oa), "finish_test_session")
    /\ UNCHANGED <<run_outcome, item, targets>>
    /\ fin_in' = NoFinIn
    /\ filtered' = NoFiltered

\* pytest_collection_modifyitems: the collected items are filtered.
FilterItems ==
    /\ phase = "idle"
    /\ \E items \in ItemLists :
       \E tests \in Inputs(settings.context # NoStr, RerunTests),
          oa \in Drawn(settings.context # NoStr /\ ~authenticated /\ ~closed, AuthOutcomes) :
        \E r \in {filter_test_items(Ctx, settings, items, oa, tests)} :
            /\ Commit(r.ctx, "filter_test_items")
            /\ filtered' = [items |-> items, tests |-> tests, ret |-> r.ret]
    /\ UNCHANGED <<run_outcome, item, targets>>
    /\ fin_in' = NoFinIn

\* The hook has returned (or raised) and the framework goes on to its next event.
Return ==
    /\ phase = "hook"
    /\ phase' = "idle"
    /\ last_op' = "none"
    /\ trace' = <<>>
    /\ raised' = NoExc
    /\ fin_in' = NoFinIn
    /\ filtered' = NoFiltered
    /\ UNCHANGED <<test_run, test, authenticated, auth_token, closed, handler, send_logs_cfg,
                   run_outcome, finish_runs, item, settings, targets>>

Next ==
    \/ StartRun \/ StartTest \/ FinishTest \/ FinishRun \/ SendScreenshot
    \/ StartSession \/ FinishSession \/ Return

Spec == Init /\ [][Next]_vars

\* The start of a session up to the collection of its items.
NextCollect == StartRun \/ FilterItems \/ Return

SpecCollect == InitCollect /\ [][NextCollect]_vars

\* ===================================================================
\* Properties
\* ===================================================================
InHook(op) == phase = "hook" /\ last_op = op
Returned(op) == InHook(op) /\ raised = NoExc
FinishTestCalls == Calls(trace, "finish_test")
\* The hook stopped at an exception of the refresh-token exchange.
AuthRaised == \E i \in 1..Len(trace) : trace[i].op = "auth" /\ trace[i].exc # NoExc

\* C1 as stated: the current Test is absent before the first start_test and
\* after every finish_test that returns, whatever the remote calls did.
C1_TestAbsentAfterEveryFinish ==
    /\ ~item.present => ~test.present
    /\ Returned("finish_test") => ~test.present

\* C1 amended: the current Test is absent before the first start_test and after
\* every finish_test that found the Test active and returned, also when the
\* finish-test request failed.
C1_TestAbsentAfterActiveFinish ==
    /\ ~item.present => ~test.present
    /\ Returned("finish_test") /\ fin_in.active => ~test.present

\* A finish_test on an active Test whose request met a transport failure has
\* returned and the Test is gone.
C1_Witness ==
    /\ Returned("finish_test") /\ fin_in.active /\ ~test.present
    /\ FinishTestCalls # <<>> /\ FinishTestCalls[1].outcome = RequestError

\* The status resolution table of the specification.
StatusTable(passed, xfail) ==
    IF passed /\ ~xfail.present THEN [status |-> PASSED, reason |-> NoStr]
    ELSE IF passed /\ ~xfail.strict THEN [status |-> SKIPPED, reason |-> NoStr]
    ELSE IF passed THEN [status |-> FAILED, reason |-> LongRepr]
    ELSE IF ~xfail.present THEN [status |-> FAILED, reason |-> LongRepr]
    ELSE [status |-> SKIPPED, reason |-> xfail.reason]

\* The table with the marker's reason in the row passed / xfail / not strict.
AmendedStatusTable(passed, xfail) ==
    IF passed /\ xfail.present /\ ~xfail.strict
    THEN [status |-> SKIPPED, reason |-> xfail.reason]
    ELSE StatusTable(passed, xfail)

\* C2 as stated: the payload finish_test sends is the one of the table.
C2_PayloadIsTable ==
    InHook("finish_test") =>
        \A i \in 1..Len(FinishTestCalls) :
            Payload(FinishTestCalls[i]) = StatusTable(fin_in.passed, fin_in.xfail)

\* C2 amended: finish_test on an active Test sends one payload (unless the
\* refresh-token exchange raised), and it is the one of the table, except that
\* a passed test with a non-strict xfail marker is sent as skipped with the
\* marker's reason (none when the marker has no reason).
C2_PayloadIsAmendedTable ==
    InHook("finish_test") =>
        /\ fin_in.active /\ ~AuthRaised => Len(FinishTestCalls) = 1
        /\ \A i \in 1..Len(FinishTestCalls) :
              Payload(FinishTestCalls[i]) = AmendedStatusTable(fin_in.passed, fin_in.xfail)

\* A passed test with a strict xfail marker has been sent as failed.
C2_Witness ==
    /\ InHook("finish_test") /\ fin_in.passed /\ fin_in.xfail.present /\ fin_in.xfail.strict
    /\ FinishTestCalls # <<>> /\ FinishTestCalls[1].status = FAILED

\* The start-run request met a transport failure or a non-2xx response.
RunStartFailed == run_outcome # <<>> /\ ~Is2xx(run_outcome[1])

\* C3: once the start-run request has failed the Run is inactive and no hook
\* invokes the client's start-test or finish-test operation.
C3_FailedRunNoTestCalls ==
    RunStartFailed =>
        /\ ~test_run_is_active(Ctx)
        /\ \A i \in 1..Len(trace) : trace[i].op \notin {"start_test", "finish_test"}

\* After a failed start-run a test has been started and finish_test has run.
C3_Witness == RunStartFailed /\ InHook("finish_test") /\ test.present

\* C4 as stated: an item reported skipped at start with a skip marker carrying
\* a reason, whose start-test request returned an id, has had exactly one
\* finish-test request after start_test and after any later finish_test, that
\* request carried (skipped, the marker's reason), and the current Test is gone.
C4_SkippedAtStartFinishedOnce ==
    /\ phase = "hook" /\ last_op \in {"start_test", "finish_test"}
    /\ item.present /\ item.skipped /\ item.started /\ item.reason # NoStr
    => /\ item.nfin = 1
       /\ item.first = [status |-> SKIPPED, reason |-> item.reason]
       /\ ~test.present

\* C5 as stated: no lifecycle hook raises to the test framework.
C5_NoHookRaises ==
    /\ phase = "hook"
    /\ last_op \in {"start_test_run", "start_test", "finish_test", "finish_test_run"}
    => raised = NoExc

\* C6 as stated: a client operation whose request met a transport failure
\* returns an absent result and raises nothing.
C6_TransportFailureAbsorbed ==
    \A i \in 1..Len(trace) :
        trace[i].outcome.kind = "RequestError" =>
            trace[i].exc = NoExc /\ trace[i].ret = NoId

\* C7 as stated: start-run and start-test return the identifier of the body
\* for every 2xx response and an absent result for every other response.
C7_2xxYieldsId ==
    \A i \in 1..Len(trace) :
        /\ trace[i].op \in {"start_test_run", "start_test"}
        /\ trace[i].outcome.kind = "Response"
        => /\ trace[i].exc = NoExc
           /\ trace[i].ret = IF Is2xx(trace[i].outcome) THEN trace[i].outcome.id ELSE NoId

\* C8 as stated: once the finish-run operation has been invoked the Run is not
\* active, and the operation is never invoked a second time.
C8_FinishedRunInactive ==
    finish_runs >= 1 => ~test_run_is_active(Ctx) /\ finish_runs = 1

\* C9 as stated: when finish_run has run, the client has been closed.
C9_FinishRunCloses == InHook("finish_test_run") => closed

\* C10: a finish_test dispatched while the Test is not active invokes no client
\* operation, raises nothing, and leaves the current Run and Test as they were.
C10_InactiveFinishTestNoOp ==
    [][phase = "idle" /\ last_op' = "finish_test" /\ ~test_is_active(Ctx)
        => /\ trace' = <<>>
           /\ raised' = NoExc
           /\ test' = test
           /\ test_run' = test_run
           /\ authenticated' = authenticated]_vars

\* finish_test has run as a no-op on a Test without a server id, with no
\* credential obtained yet.
C10_Witness ==
    /\ InHook("finish_test") /\ ~fin_in.active
    /\ test.present /\ test.zebrunner_id = NoId
    /\ ~authenticated /\ trace = <<>>

\* The channels of a notification block in the order email recipients, slack
\* channels, ms-teams channels, those with a non-empty destination only.
ConfiguredChannels(n) ==
    SelectSeq(<<NotificationTargetModel(EMAIL_RECIPIENTS, n.emails),
                NotificationTargetModel(SLACK_CHANNELS, n.slack_channels),
                NotificationTargetModel(MS_TEAMS_CHANNELS, n.ms_teams_channels)>>,
              LAMBDA c : c.value # "")

\* C11 as stated: the notification targets built at run start are a list: the
\* configured channels with a non-empty destination, in the order email, slack,
\* ms-teams, each with its value; the empty list when no block is configured.
C11_TargetsAreList ==
    targets # <<>> =>
        targets[1] = Targets(IF settings.notifications.present
                             THEN ConfiguredChannels(settings.notifications)
                             ELSE <<>>)

\* C11 amended: with a notification block configured the targets are the list
\* of the channels with a non-empty destination (0 to 3 of them, in the order
\* email, slack, ms-teams, each with its configured value); with no block
\* configured there is no list at all (None), not an empty list.
C11_TargetsListOrNone ==
    targets # <<>> =>
        IF settings.notifications.present
        THEN /\ targets[1] = Targets(ConfiguredChannels(settings.notifications))
             /\ Len(targets[1].list) <= 3
        ELSE targets[1] = NoTargets

\* The start-run payload has been built from a block with slack and ms-teams
\* channels and no email recipients: two targets, slack first.
C11_Witness ==
    /\ InHook("start_test_run") /\ targets # <<>>
    /\ settings.notifications.present /\ settings.notifications.emails = ""
    /\ Len(targets[1].list) = 2
    /\ targets[1].list[1].type = SLACK_CHANNELS
    /\ targets[1].list[2].type = MS_TEAMS_CHANNELS

\* The items whose name is the correlation-data name of some test of the
\* descriptor that carries correlation data, in the order of the items.
RECURSIVE RerunItems(_, _)
RerunItems(items, tests) ==
    IF items = <<>> THEN <<>>
    ELSE LET keep == \E i \in 1..Len(tests) :
                        /\ tests[i].correlation_data # NoStr
                        /\ tests[i].correlation_data = Head(items)
         IN  (IF keep THEN <<Head(items)>> ELSE <<>>) \o RerunItems(Tail(items), tests)

\* C12: without a rerun token filter_test_items makes no remote call and
\* returns the items it was given; with a token, when it returns, it returns
\* the items named by the descriptor's tests carrying correlation data, in
\* their order.
C12_FilterKeepsRerunItems ==
    InHook("filter_test_items") =>
        IF settings.context = NoStr
        THEN trace = <<>> /\ raised = NoExc /\ filtered.ret = filtered.items
        ELSE raised = NoExc => filtered.ret = RerunItems(filtered.items, filtered.tests)

\* With a token: items test_b, test_a; a descriptor whose first test carries
\* no correlation data and whose second names test_a; test_a alone is returned.
C12_Witness ==
    /\ Returned("filter_test_items") /\ settings.context # NoStr
    /\ filtered.items = <<"test_b", "test_a">>
    /\ filtered.tests = <<TestModel(NoStr), TestModel("test_a")>>
    /\ filtered.ret = <<"test_a">>

\* C13: once a credential has been obtained, no hook sends a request to the
\* authentication endpoint and the stored credential stays as it is.
C13_AuthOnce ==
    [][authenticated
        => /\ authenticated'
           /\ auth_token' = auth_token
           /\ Calls(trace', "auth") = <<>>]_vars

\* finish_test has sent its request with the credential obtained by an
\* earlier hook, without a request to the authentication endpoint.
C13_Witness ==
    /\ InHook("finish_test") /\ authenticated /\ auth_token \in Tokens
    /\ FinishTestCalls # <<>> /\ Calls(trace, "auth") = <<>>

\* C14 as stated: start_test_session and finish_test_session invoke no session
\* operation when the Run is not active; when it is active they invoke the
\* client's session operation once and complete without raising.
C14_SessionsForward ==
    /\ phase = "hook" /\ last_op \in {"start_test_session", "finish_test_session"}
    /\ ~AuthRaised
    => /\ raised = NoExc
       /\ Len(Calls(trace, last_op)) = IF test_run_is_active(Ctx) THEN 1 ELSE 0

\* C15 as stated: once the client has been closed, no hook closes it again and
\* no hook sends a request on it.
C15_ClosedOnceThenSilent ==
    [][closed
        => \A i \in 1..Len(trace') :
              trace'[i].op # "close" /\ trace'[i].outcome.kind = "NoRequest"]_vars

\* C16: finish_test_run flushes the log sink only when the Run is active and
\* only after its finish-run request has been made, also when that request
\* failed; with an inactive Run it makes neither the request nor the flush.
C16_FlushAfterFinishRun ==
    InHook("finish_test_run") =>
        /\ \A i \in 1..Len(trace) :
              trace[i].op = "send_logs" =>
                  /\ test_run_is_active(Ctx)
                  /\ \E j \in 1..(i - 1) : trace[j].op = "finish_test_run"
        /\ ~test_run_is_active(Ctx) =>
              \A i \in 1..Len(trace) : trace[i].op \notin {"finish_test_run", "send_logs"}

\* The finish-run request met a transport failure and the logs were flushed
\* after it.
C16_Witness ==
    /\ InHook("finish_test_run") /\ Len(trace) >= 2
    /\ \E i \in 1..(Len(trace) - 1) :
          /\ trace[i].op = "finish_test_run" /\ trace[i].outcome = RequestError
          /\ trace[i + 1].op = "send_logs"

\* C17: a hook makes at most one start-run request when it is start_test_run
\* and none otherwise, at most one start-test request when it is start_test
\* and none otherwise: a start request that failed is not made again.
C17_NoRetry ==
    phase = "hook" =>
        /\ Len(Calls(trace, "start_test_run")) <= IF last_op = "start_test_run" THEN 1 ELSE 0
        /\ Len(Calls(trace, "start_test")) <= IF last_op = "start_test" THEN 1 ELSE 0

\* The start-test request of the current Test failed, finish_run has then run
\* with an active Run, and no start request was made again.
C17_Witness ==
    /\ InHook("finish_test_run") /\ test_run_is_active(Ctx)
    /\ item.present /\ ~item.started /\ test.present
    /\ Calls(trace, "finish_test_run") # <<>>
    /\ Calls(trace, "start_test") = <<>>

\* The hooks that authorize before their own work (finish_test: once it has
\* found the Test active).
AuthorizingHooks ==
    {"start_test_run", "start_test", "finish_test_run", "start_test_session",
     "finish_test_session"}

\* C18 as stated: when the finish_test of an item has run, as the first
\* finish_test since its start_test, on a client that is not closed, an item
\* whose start-test request returned an id has had exactly one finish-test
\* request, carrying the id of the Run and that id; an item whose start-test
\* request returned none has had no finish-test request.
C18_StartedTestFinishedOnce ==
    InHook("finish_test") /\ fin_in.paired /\ ~closed =>
        IF item.started THEN item.nfin = 1 /\ item.ids_ok ELSE item.nfin = 0

\* C19 as stated: a hook entered without a credential sends one request to the
\* authentication endpoint before anything else, and start_test_run then
\* still sends its start-run request when no credential was obtained.
C19_AuthRetriedAndRunStarted ==
    [][/\ phase \in {"init", "idle"} /\ ~authenticated
       /\ \/ last_op' \in AuthorizingHooks
          \/ last_op' = "finish_test" /\ test_is_active(Ctx)
       => /\ trace' # <<>> /\ trace'[1].op = "auth"
          /\ Len(Calls(trace', "auth")) = 1
          /\ last_op' = "start_test_run" /\ ~authenticated'
                => Len(Calls(trace', "start_test_run")) = 1]_vars

====
